---- MODULE Spec2Model ----
(***************************************************************************)
(* tensorflow/python/ops/numpy_ops/__init__.py                             *)
(*                                                                         *)
(* The module body is a sequence of binding statements (imports, wildcard  *)
(* imports, and three decorated function definitions) executed top to      *)
(* bottom against the module namespace.  Once the body has run, importers  *)
(* may call the three alias wrappers max, min and round, each of which     *)
(* looks up its delegate (amax, amin, around) in the module namespace and  *)
(* forwards its arguments by keyword.                                      *)
(***************************************************************************)
EXTENDS Integers, Sequences, FiniteSets, TLC

VARIABLES
  exports,  \* what each wildcard-imported sibling module makes public
  arr,      \* the array the importing program passes to the wrappers
  pc,       \* index of the next statement of the module body to execute
  ns,       \* the module namespace: name -> object
  last      \* the most recent wrapper call, with the delegate calls it made

vars == <<exports, arr, pc, ns, last>>

----------------------------------------------------------------------------
(* Bounds of the model                                                     *)

\* Largest extent of an array dimension that can vary.
MaxLen == 2

\* Element values, in hundredths (25 is 0.25, 250 is 2.5).
Vals == {25, 250}

----------------------------------------------------------------------------
(* Python values                                                           *)

PyNone == [t |-> "None"]
PyInt(i) == [t |-> "int", i |-> i]
PyBool(b) == [t |-> "bool", b |-> b]

\* Marks an argument that the caller left out of the call.
Omitted == [t |-> "omitted"]

\* A parameter with a default takes the default when the caller leaves it out.
Bind(given, default) == IF given = Omitted THEN default ELSE given

Ok(v) == [kind |-> "ok", val |-> v]
Raise(e) == [kind |-> "error", err |-> e]

\* Objects are identified by the module that defines them and their name there.
Obj(m, n) == [mod |-> m, name |-> n]
Unbound == [mod |-> "", name |-> ""]

----------------------------------------------------------------------------
(* Arrays: a shape and the elements in row-major order                     *)

Arr1(n) == { [shape |-> <<n>>, data |-> d] : d \in [1..n -> Vals] }
Arr2(r, c) == { [shape |-> <<r, c>>, data |-> d] : d \in [1..(r * c) -> Vals] }

\* One-dimensional arrays of up to MaxLen elements and two-row matrices of up
\* to MaxLen columns.
Arrays ==
  UNION { Arr1(n) : n \in 1..MaxLen } \cup UNION { Arr2(2, c) : c \in 1..MaxLen }

----------------------------------------------------------------------------
(* The delegates.  They are implemented in the sibling modules; what is    *)
(* modelled here is their contract: amax and amin reduce an array along an *)
(* axis (all axes when axis is None), around rounds every element to the   *)
(* given number of decimals, and each fails on arguments it cannot accept. *)

Range(f) == { f[i] : i \in DOMAIN f }
Largest(S) == CHOOSE x \in S : \A y \in S : x >= y
Smallest(S) == CHOOSE x \in S : \A y \in S : x =< y

Truthy(v) ==
  CASE v.t = "bool" -> v.b
    [] v.t = "int" -> v.i # 0
    [] OTHER -> FALSE

Pick(kind, S) == IF kind = "max" THEN Largest(S) ELSE Smallest(S)

\* Reduce a along axis; keepdims keeps the reduced axes with extent 1.
Reduce(kind, a, axis, keepdims) ==
  LET ax == Bind(axis, PyNone)
      kd == Truthy(Bind(keepdims, PyNone))
      nd == Len(a.shape)
  IN  IF ax.t = "None"
        THEN Ok([shape |-> IF kd THEN [i \in 1..nd |-> 1] ELSE <<>>,
                 data |-> <<Pick(kind, Range(a.data))>>])
      ELSE IF ax.t # "int" THEN Raise("TypeError")
      ELSE IF ax.i < -nd \/ ax.i >= nd THEN Raise("InvalidAxis")
      ELSE
        LET k == IF ax.i < 0 THEN ax.i + nd ELSE ax.i
        IN  IF nd = 1
              THEN Ok([shape |-> IF kd THEN <<1>> ELSE <<>>,
                       data |-> <<Pick(kind, Range(a.data))>>])
            ELSE
              LET r == a.shape[1]
                  c == a.shape[2]
              IN  IF k = 0
                    THEN Ok([shape |-> IF kd THEN <<1, c>> ELSE <<c>>,
                             data |-> [j \in 1..c |->
                                Pick(kind, { a.data[(i - 1) * c + j] : i \in 1..r })]])
                    ELSE Ok([shape |-> IF kd THEN <<r, 1>> ELSE <<r>>,
                             data |-> [i \in 1..r |->
                                Pick(kind, { a.data[(i - 1) * c + j] : j \in 1..c })]])

amax(a, axis, keepdims) == Reduce("max", a, axis, keepdims)

amin(a, axis, keepdims) == Reduce("min", a, axis, keepdims)

RECURSIVE Pow10(_)
Pow10(n) == IF n <= 0 THEN 1 ELSE 10 * Pow10(n - 1)

\* Round x to a multiple of step, ties to the even multiple.
RoundTo(x, step) ==
  LET q == x \div step
      r == x % step
  IN  IF 2 * r < step THEN q * step
      ELSE IF 2 * r > step THEN (q + 1) * step
      ELSE IF q % 2 = 0 THEN q * step
      ELSE (q + 1) * step

\* Elements are held in hundredths, so d decimals is a step of 10^(2 - d).
around(a, decimals) ==
  LET d == Bind(decimals, PyInt(0))
  IN  IF d.t # "int" THEN Raise("TypeError")
      ELSE Ok([shape |-> a.shape,
               data |-> [i \in DOMAIN a.data |-> RoundTo(a.data[i], Pow10(2 - d.i))]])

\* Calling an object runs the implementation that the object is.
Apply(obj, kw) ==
  CASE obj.name = "amax" -> amax(kw.a, kw.axis, kw.keepdims)
    [] obj.name = "amin" -> amin(kw.a, kw.axis, kw.keepdims)
    [] obj.name = "around" -> around(kw.a, kw.decimals)
    [] OTHER -> Raise("TypeError")

----------------------------------------------------------------------------
(* The module body                                                         *)

\* The package whose __init__ this file is; its wrappers and submodules are
\* objects of this package.
ThisPackage == "numpy_ops"

WildMods == {"np_array_ops", "np_dtypes", "np_math_ops"}
Wrappers == {"max", "min", "round"}
Delegates == {"amax", "amin", "around"}

\* ModuleBody with the last utility import binding the wrong source name.
ModuleBody_wrong_source == <<
  [op |-> "from", mod |-> "array_ops", name |-> "newaxis", as |-> "newaxis"],
  [op |-> "from", mod |-> ThisPackage, name |-> "np_random", as |-> "random"],
  [op |-> "from", mod |-> ThisPackage, name |-> "np_utils", as |-> "np_utils"],
  [op |-> "star", mod |-> "np_array_ops", name |-> "*", as |-> "*"],
  [op |-> "from", mod |-> "np_arrays", name |-> "ndarray", as |-> "ndarray"],
  [op |-> "star", mod |-> "np_dtypes", name |-> "*", as |-> "*"],
  [op |-> "star", mod |-> "np_math_ops", name |-> "*", as |-> "*"],
  [op |-> "from", mod |-> "np_utils", name |-> "finfo", as |-> "finfo"],
  [op |-> "from", mod |-> "np_utils", name |-> "promote_types", as |-> "promote_types"],
  [op |-> "from", mod |-> "np_utils", name |-> "promote_types", as |-> "result_type"],
  [op |-> "def", mod |-> ThisPackage, name |-> "max", as |-> "max"],
  [op |-> "def", mod |-> ThisPackage, name |-> "min", as |-> "min"],
  [op |-> "def", mod |-> ThisPackage, name |-> "round", as |-> "round"] >>

\* ModuleBody with the wrappers defined ahead of the wildcard imports.
ModuleBody_defs_first == <<
  [op |-> "from", mod |-> "array_ops", name |-> "newaxis", as |-> "newaxis"],
  [op |-> "from", mod |-> ThisPackage, name |-> "np_random", as |-> "random"],
  [op |-> "from", mod |-> ThisPackage, name |-> "np_utils", as |-> "np_utils"],
  [op |-> "def", mod |-> ThisPackage, name |-> "max", as |-> "max"],
  [op |-> "def", mod |-> ThisPackage, name |-> "min", as |-> "min"],
  [op |-> "def", mod |-> ThisPackage, name |-> "round", as |-> "round"],
  [op |-> "star", mod |-> "np_array_ops", name |-> "*", as |-> "*"],
  [op |-> "from", mod |-> "np_arrays", name |-> "ndarray", as |-> "ndarray"],
  [op |-> "star", mod |-> "np_dtypes", name |-> "*", as |-> "*"],
  [op |-> "star", mod |-> "np_math_ops", name |-> "*", as |-> "*"],
  [op |-> "from", mod |-> "np_utils", name |-> "finfo", as |-> "finfo"],
  [op |-> "from", mod |-> "np_utils", name |-> "promote_types", as |-> "promote_types"],
  [op |-> "from", mod |-> "np_utils", name |-> "result_type", as |-> "result_type"] >>

\* The imports and definitions in the order in which the file states them.
ModuleBody == <<
  [op |-> "from", mod |-> "array_ops", name |-> "newaxis", as |-> "newaxis"],
  [op |-> "from", mod |-> ThisPackage, name |-> "np_random", as |-> "random"],
  [op |-> "from", mod |-> ThisPackage, name |-> "np_utils", as |-> "np_utils"],
  [op |-> "star", mod |-> "np_array_ops", name |-> "*", as |-> "*"],
  [op |-> "from", mod |-> "np_arrays", name |-> "ndarray", as |-> "ndarray"],
  [op |-> "star", mod |-> "np_dtypes", name |-> "*", as |-> "*"],
  [op |-> "star", mod |-> "np_math_ops", name |-> "*", as |-> "*"],
  [op |-> "from", mod |-> "np_utils", name |-> "finfo", as |-> "finfo"],
  [op |-> "from", mod |-> "np_utils", name |-> "promote_types", as |-> "promote_types"],
  [op |-> "from", mod |-> "np_utils", name |-> "result_type", as |-> "result_type"],
  [op |-> "def", mod |-> ThisPackage, name |-> "max", as |-> "max"],
  [op |-> "def", mod |-> ThisPackage, name |-> "min", as |-> "min"],
  [op |-> "def", mod |-> ThisPackage, name |-> "round", as |-> "round"] >>

\* The operation each wrapper's documentation link declares it an alias of.
AliasOf == [max |-> "maximum", min |-> "minimum", round |-> "around"]

\* max with no defaults of its own: an omitted argument stays omitted.
max_defaults_left_out == [axis |-> Omitted, keepdims |-> Omitted]

\* round defaulting to one decimal.
round_defaults_one == [decimals |-> PyInt(1)]

\* Defaults of the wrappers' parameters.
max_defaults == [axis |-> PyNone, keepdims |-> PyNone]
min_defaults == [axis |-> PyNone, keepdims |-> PyNone]
round_defaults == [decimals |-> PyInt(0)]

Loaded == pc > Len(ModuleBody)

\* A global name used in a function body is looked up in the module namespace
\* when the body runs.
Invoke(name, kw) ==
  LET obj == ns[name]
  IN  [fn |-> name, obj |-> obj, kw |-> kw,
       outcome |-> IF obj = Unbound THEN Raise("NameError") ELSE Apply(obj, kw)]

\* max passing its two optional arguments in each other's place.
max_swapped(a, axis, keepdims) ==
  LET call == Invoke("amax", [a |-> a, axis |-> keepdims, keepdims |-> axis])
  IN  [invocations |-> <<call>>, outcome |-> call.outcome]

\* max answering from the previous call to max instead of calling amax.
max_memo(a, axis, keepdims) ==
  LET call == Invoke("amax", [a |-> a, axis |-> axis, keepdims |-> keepdims])
  IN  IF last.wrapper = "max" /\ last.outcome.kind = "ok"
        THEN [invocations |-> <<>>, outcome |-> last.outcome]
        ELSE [invocations |-> <<call>>, outcome |-> call.outcome]

max(a, axis, keepdims) ==
  LET call == Invoke("amax", [a |-> a, axis |-> axis, keepdims |-> keepdims])
  IN  [invocations |-> <<call>>, outcome |-> call.outcome]

\* min reducing with amax.
min_calls_amax(a, axis, keepdims) ==
  LET call == Invoke("amax", [a |-> a, axis |-> axis, keepdims |-> keepdims])
  IN  [invocations |-> <<call>>, outcome |-> call.outcome]

min(a, axis, keepdims) ==
  LET call == Invoke("amin", [a |-> a, axis |-> axis, keepdims |-> keepdims])
  IN  [invocations |-> <<call>>, outcome |-> call.outcome]

\* round replacing the delegate's error by one of its own.
round_translates(a, decimals) ==
  LET call == Invoke("around", [a |-> a, decimals |-> decimals])
  IN  [invocations |-> <<call>>,
       outcome |-> IF call.outcome.kind = "error" THEN Raise("ValueError")
                   ELSE call.outcome]

round(a, decimals) ==
  LET call == Invoke("around", [a |-> a, decimals |-> decimals])
  IN  [invocations |-> <<call>>, outcome |-> call.outcome]

----------------------------------------------------------------------------
(* The sibling modules.  Array construction and manipulation live in       *)
(* np_array_ops, the dtype set in np_dtypes and math operations in         *)
(* np_math_ops; the reductions and the rounding operation are public under *)
(* the names amax, amin and around in one of the two operation modules.    *)

BaseExports ==
  [np_array_ops |-> {"zeros"}, np_dtypes |-> {"float32"},
   np_math_ops |-> {"maximum", "minimum"}]

\* The operation module that holds the reductions and the rounding operation.
Homes == {"np_array_ops", "np_math_ops"}

ExportsWith(home, extra) ==
  [m \in WildMods |-> BaseExports[m] \cup (IF m = home THEN Delegates ELSE {}) \cup extra[m]]

NoExtra == [m \in WildMods |-> {}]

\* The sibling modules keep the implementations under amax, amin and around
\* and define nothing called max, min or round.
Environments == { ExportsWith(home, NoExtra) : home \in Homes }

\* As above, but one sibling module may also make max, min and round public.
ShadowEnvironments ==
  Environments \cup
  { ExportsWith(home, [m \in WildMods |-> IF m = s THEN Wrappers ELSE {}]) :
      home \in Homes, s \in WildMods }

Names ==
  { ModuleBody[i].as : i \in { j \in DOMAIN ModuleBody : ModuleBody[j].op # "star" } }
  \cup UNION { BaseExports[m] : m \in WildMods } \cup Delegates \cup Wrappers

NoCall == [wrapper |-> "none"]

AxisArgs == {Omitted, PyNone, PyInt(-1), PyInt(0), PyInt(1), PyInt(2)}
KeepdimsArgs == {Omitted, PyNone, PyBool(FALSE), PyBool(TRUE)}
DecimalsArgs == {Omitted, PyNone, PyInt(-1), PyInt(0), PyInt(1), PyInt(2)}

----------------------------------------------------------------------------
(* Loading the module                                                      *)

InitWith(envs) ==
  /\ exports \in envs
  /\ arr \in Arrays
  /\ pc = 1
  /\ ns = [n \in Names |-> Unbound]
  /\ last = NoCall

Init == InitWith(Environments)

InitShadow == InitWith(ShadowEnvironments)

\* from mod import name as as
ImportFrom ==
  /\ ~Loaded
  /\ ModuleBody[pc].op = "from"
  /\ ns' = [ns EXCEPT ![ModuleBody[pc].as] = Obj(ModuleBody[pc].mod, ModuleBody[pc].name)]
  /\ pc' = pc + 1
  /\ UNCHANGED <<exports, arr, last>>

\* from mod import *: every public name of mod is bound, over any earlier binding
ImportStar ==
  /\ ~Loaded
  /\ ModuleBody[pc].op = "star"
  /\ ns' = [n \in Names |->
              IF n \in exports[ModuleBody[pc].mod] THEN Obj(ModuleBody[pc].mod, n)
              ELSE ns[n]]
  /\ pc' = pc + 1
  /\ UNCHANGED <<exports, arr, last>>

\* A decorated def binds its name to the function defined here; the
\* documentation decorator returns the function it is given.
DefWrapper ==
  /\ ~Loaded
  /\ ModuleBody[pc].op = "def"
  /\ ns' = [ns EXCEPT ![ModuleBody[pc].as] = Obj(ThisPackage, ModuleBody[pc].name)]
  /\ pc' = pc + 1
  /\ UNCHANGED <<exports, arr, last>>

----------------------------------------------------------------------------
(* Calls by an importer, once the module is loaded                         *)

CallMax ==
  /\ Loaded
  /\ ns["max"] = Obj(ThisPackage, "max")
  /\ \E axis \in AxisArgs, keepdims \in KeepdimsArgs :
       LET r == max(arr, Bind(axis, max_defaults.axis),
                    Bind(keepdims, max_defaults.keepdims))
       IN  last' = [wrapper |-> "max",
                    args |-> [a |-> arr, axis |-> axis, keepdims |-> keepdims],
                    invocations |-> r.invocations, outcome |-> r.outcome]
  /\ UNCHANGED <<exports, arr, pc, ns>>

CallMin ==
  /\ Loaded
  /\ ns["min"] = Obj(ThisPackage, "min")
  /\ \E axis \in AxisArgs, keepdims \in KeepdimsArgs :
       LET r == min(arr, Bind(axis, min_defaults.axis),
                    Bind(keepdims, min_defaults.keepdims))
       IN  last' = [wrapper |-> "min",
                    args |-> [a |-> arr, axis |-> axis, keepdims |-> keepdims],
                    invocations |-> r.invocations, outcome |-> r.outcome]
  /\ UNCHANGED <<exports, arr, pc, ns>>

CallRound ==
  /\ Loaded
  /\ ns["round"] = Obj(ThisPackage, "round")
  /\ \E decimals \in DecimalsArgs :
       LET r == round(arr, Bind(decimals, round_defaults.decimals))
       IN  last' = [wrapper |-> "round",
                    args |-> [a |-> arr, decimals |-> decimals],
                    invocations |-> r.invocations, outcome |-> r.outcome]
  /\ UNCHANGED <<exports, arr, pc, ns>>

Next ==
  \/ ImportFrom
  \/ ImportStar
  \/ DefWrapper
  \/ CallMax
  \/ CallMin
  \/ CallRound

Spec == Init /\ [][Next]_vars

SpecShadow == InitShadow /\ [][Next]_vars

----------------------------------------------------------------------------
(* Properties                                                              *)

IsCall == last.wrapper \in Wrappers

\* C1: max(a, axis, keepdims) makes one call, to amax, with the same a, axis
\* and keepdims, and returns exactly what amax returns for those arguments.
C1_MaxForwardsToAmax ==
  last.wrapper = "max" =>
    LET axis == Bind(last.args.axis, PyNone)
        keepdims == Bind(last.args.keepdims, PyNone)
    IN  /\ Len(last.invocations) = 1
        /\ last.invocations[1].fn = "amax"
        /\ last.invocations[1].kw =
             [a |-> last.args.a, axis |-> axis, keepdims |-> keepdims]
        /\ last.outcome = amax(last.args.a, axis, keepdims)

\* A max call along axis 0 with keepdims set, on a matrix where reducing
\* along the other axis or dropping the kept dimension gives another result.
C1_Witness ==
  /\ last.wrapper = "max"
  /\ last.args.axis = PyInt(0)
  /\ last.args.keepdims = PyBool(TRUE)
  /\ last.outcome.kind = "ok"
  /\ last.outcome # amax(arr, PyInt(1), PyBool(TRUE))
  /\ last.outcome # amax(arr, PyInt(0), PyBool(FALSE))

C3_RoundForwardsToAround ==
  last.wrapper = "round" =>
    /\ Len(last.invocations) = 1
    /\ last.invocations[1].fn = "around"
    /\ last.args.decimals # Omitted =>
         /\ last.invocations[1].kw = [a |-> last.args.a, decimals |-> last.args.decimals]
         /\ last.outcome = around(last.args.a, last.args.decimals)
    /\ last.args.decimals = Omitted =>
         /\ last.invocations[1].kw = [a |-> last.args.a, decimals |-> PyInt(0)]
         /\ last.outcome = around(last.args.a, PyInt(0))

\* A round call without decimals on an array that rounds differently to one
\* decimal than to none.
C3_Witness ==
  /\ last.wrapper = "round"
  /\ last.args.decimals = Omitted
  /\ last.outcome.kind = "ok"
  /\ last.outcome # around(arr, PyInt(1))
  /\ last.outcome # Ok(arr)

\* C4: when the delegate fails on the forwarded arguments the wrapper fails
\* with that same error, and the wrapper fails only when its delegate did.
C4_ErrorsPropagateUnchanged ==
  IsCall =>
    /\ \A i \in DOMAIN last.invocations :
         last.invocations[i].outcome.kind = "error"
           => last.outcome = last.invocations[i].outcome
    /\ last.outcome.kind = "error"
         => \E i \in DOMAIN last.invocations :
              last.invocations[i].outcome = last.outcome

\* A round call whose delegate rejected the decimals argument.
C4_Witness ==
  /\ last.wrapper = "round"
  /\ last.invocations[1].outcome = Raise("TypeError")
  /\ last.outcome = Raise("TypeError")

\* The names the file imports one by one, each with the module it comes from
\* and its name there.
ExplicitSources ==
  [newaxis |-> Obj("array_ops", "newaxis"),
   random |-> Obj(ThisPackage, "np_random"),
   ndarray |-> Obj("np_arrays", "ndarray"),
   finfo |-> Obj("np_utils", "finfo"),
   promote_types |-> Obj("np_utils", "promote_types"),
   result_type |-> Obj("np_utils", "result_type")]

ReExported == DOMAIN ExplicitSources \cup UNION { exports[m] : m \in WildMods }

\* C5: once the module is loaded every re-exported name is bound to the object
\* its source module binds to that name, and no statement of the module body
\* rebinds a re-exported name that is already bound to a different object.
C5_ReExportsKeepIdentity ==
  /\ [](Loaded =>
          /\ \A n \in DOMAIN ExplicitSources : ns[n] = ExplicitSources[n]
          /\ \A m \in WildMods : \A n \in exports[m] : ns[n] = Obj(m, n))
  /\ [][\A n \in ReExported : ns[n] # Unbound => ns'[n] = ns[n]]_vars

\* The loaded module, with explicit and wildcard re-exports in place.
C5_Witness ==
  /\ Loaded
  /\ ns["ndarray"] = Obj("np_arrays", "ndarray")
  /\ ns["random"] = Obj(ThisPackage, "np_random")
  /\ \E m \in WildMods : ns["amax"] = Obj(m, "amax") /\ "amax" \in exports[m]
  /\ ns["float32"] = Obj("np_dtypes", "float32")

\* C6: each wrapper delegates to the operation its documentation link
\* declares it an alias of.
C6_DelegatesToDeclaredAlias ==
  IsCall =>
    \A i \in DOMAIN last.invocations : last.invocations[i].fn = AliasOf[last.wrapper]

\* C7: a wrapper call invokes its delegate exactly once, leaves the module's
\* state as it was, and gives the same result as the call before it whenever
\* that was the same wrapper with the same arguments.
C7_CallsAreStateless ==
  /\ [](IsCall => Len(last.invocations) = 1)
  /\ [][Loaded => ns' = ns /\ pc' = pc /\ exports' = exports]_vars
  /\ [][(IsCall /\ last'.wrapper = last.wrapper /\ last'.args = last.args)
          => last'.outcome = last.outcome]_vars

\* A wrapper call that followed the loading of the module and made one
\* delegate call.
C7_Witness ==
  /\ last.wrapper = "max"
  /\ Len(last.invocations) = 1
  /\ last.outcome.kind = "ok"
  /\ Loaded

\* C8: when the caller of max or min omits axis or keepdims, the delegate is
\* still passed that argument, with the value None.
C8_OmittedPassedAsNone ==
  last.wrapper \in {"max", "min"} =>
    \A i \in DOMAIN last.invocations :
      /\ last.invocations[i].kw.axis # Omitted
      /\ last.invocations[i].kw.keepdims # Omitted
      /\ last.args.axis = Omitted => last.invocations[i].kw.axis = PyNone
      /\ last.args.keepdims = Omitted => last.invocations[i].kw.keepdims = PyNone

\* A max call that gave neither axis nor keepdims.
C8_Witness ==
  /\ last.wrapper = "max"
  /\ last.args.axis = Omitted
  /\ last.args.keepdims = Omitted
  /\ Len(last.invocations) = 1

\* C9: once the module is loaded, max, min and round are bound to the
\* wrappers defined in this file, whatever a wildcard import bound to those
\* names, and amax, amin and around are bound to imported implementations.
C9_WrappersShadowImports ==
  Loaded =>
    /\ \A w \in Wrappers : ns[w] = Obj(ThisPackage, w)
    /\ \A d \in Delegates :
         ns[d] \in { Obj(m, d) : m \in { x \in WildMods : d \in exports[x] } }

\* The loaded module where a wildcard-imported module made max public.
C9_Witness ==
  /\ Loaded
  /\ \E m \in WildMods : "max" \in exports[m]
  /\ ns["max"] = Obj(ThisPackage, "max")
  /\ ns["amax"] # Unbound

====
